---- MODULE Spec2Model ----
(***************************************************************************)
(* A model of pylabber's Patient-Subject resolution                        *)
(* (dicom/models/patient.py) and of the Scan model's DICOM-derived fields   *)
(* and lazy NIfTI materialization (mri/models/scan.py).                     *)
(*                                                                         *)
(* Python values are encoded as follows.  An optional value (a nullable    *)
(* field, a nullable relation, a function that may return None) is a       *)
(* sequence of length 0 or 1: None is << >> and a present value x is       *)
(* << x >>.  A database table is a sequence of rows whose index is the     *)
(* row's primary key; a relation holds the primary key of its target.      *)
(***************************************************************************)
EXTENDS Integers, Sequences, FiniteSets, TLC

VARIABLES
    subjects,           \* research.Subject table: Seq of rows, pk = index
    patient,            \* the Patient instances, by name
    pcall,              \* the last completed get_subject() call and its result
    returned,           \* per Patient: what its last completed get_subject()
                        \* call returned (None before the first)
    pc,                 \* per request: position inside get_subject()
    tpatient,           \* per request: the Patient get_subject() runs on
    existing_subject,   \* per request: the local variable of get_subject()
    scan,               \* the Scan instances (in memory), by name
    scan_db,            \* the Scan rows as last saved
    series,             \* django_dicom.Series table, by primary key
    sequence_types,     \* mri.SequenceType table: Seq of rows, pk = index
    niftis,             \* mri.NIfTI table: Seq of rows, pk = index
    conversions,        \* per Scan: Dcm2niix.convert() invocations so far
    saves,              \* per Scan: save() invocations so far
    scall,              \* the last Scan operation, its outcome, and how
                        \* often it ran the converter
    rcall               \* the last REST request and the response to it

pvars == <<subjects, patient, pcall, returned, pc, tpatient, existing_subject>>

svars == <<scan, scan_db, series, sequence_types, niftis, conversions, saves, scall>>

rvars == <<rcall>>

vars == <<subjects, patient, pcall, returned, pc, tpatient, existing_subject,
          scan, scan_db, series, sequence_types, niftis, conversions, saves, scall,
          rcall>>

(***************************************************************************)
(* Bounds of the model.                                                    *)
(***************************************************************************)
\* Most Subject rows the table may hold (creation is disabled beyond it).
MaxSubjects == 4
\* Most Subject rows present before the first call.
MaxInitSubjects == 2

(***************************************************************************)
(* Python's None and truthiness of a model instance or None.               *)
(***************************************************************************)
None == << >>

Some(x) == << x >>

\* `if obj:` for obj a model instance or None: instances are always truthy.
Truthy(opt) == opt # None

(***************************************************************************)
(* Patient and Subject rows.                                               *)
(***************************************************************************)
Patients == {"p1", "p2"}

\* The demographic columns of the Patient rows; patient_uid is unique.
PatientRow(p) ==
    IF p = "p1"
    THEN [patient_uid |-> "111", given_name |-> "Ada", family_name |-> "Byron",
          date_of_birth |-> "1990-01-01", sex |-> "F"]
    ELSE [patient_uid |-> "222", given_name |-> "Carl", family_name |-> "Dirac",
          date_of_birth |-> "1985-05-05", sex |-> "M"]

\* Subject rows that may exist before any call (entered through the REST
\* layer): their id_number may or may not equal some Patient's patient_uid.
SubjectPool ==
    { [first_name |-> "Eve", last_name |-> "Frank",
       date_of_birth |-> "1970-07-07", sex |-> "U", id_number |-> n]
      : n \in {"111", "222", "333"} }

\* All sequences over S of length at most n.
SeqUpTo(S, n) == UNION { [1..k -> S] : k \in 0..n }

\* The columns of Patient that get_subject() reads, with the subject relation.
MakePatient(p, link) ==
    [patient_uid |-> PatientRow(p).patient_uid,
     given_name |-> PatientRow(p).given_name,
     family_name |-> PatientRow(p).family_name,
     date_of_birth |-> PatientRow(p).date_of_birth,
     sex |-> PatientRow(p).sex,
     subject |-> link]

(***************************************************************************)
(* Patient methods.                                                        *)
(***************************************************************************)
\* Variant with the two names exchanged; C1 tells it from the code.
get_subject_attributes_swapped(self) ==
    [first_name |-> self.family_name,
     last_name |-> self.given_name,
     date_of_birth |-> self.date_of_birth,
     sex |-> self.sex,
     id_number |-> self.patient_uid]

get_subject_attributes(self) ==
    [first_name |-> self.given_name,
     last_name |-> self.family_name,
     date_of_birth |-> self.date_of_birth,
     sex |-> self.sex,
     id_number |-> self.patient_uid]

\* Constraints the Subject table puts on an insert.  research/models is not
\* part of the sources at hand; the specification states that duplicate
\* Subjects may be created for one identifier, so no uniqueness is enforced.
SubjectInsertAllowed(subs, row) == TRUE

\* Subject.objects.filter(id_number=...): the primary keys of the matches.
filter_id_number(subs, id_number) ==
    { i \in 1..Len(subs) : subs[i].id_number = id_number }

\* QuerySet.first(): the match of lowest primary key, or None.
first(pks) ==
    IF pks = {} THEN None
    ELSE Some(CHOOSE i \in pks : \A j \in pks : i <= j)

\* Variant searching by the wrong column; C2 tells it from the code.
find_subject_by_name(subs, self) == first(filter_id_number(subs, self.given_name))

find_subject(subs, self) == first(filter_id_number(subs, self.patient_uid))

\* Subject.objects.create(**attributes): the table with the new row, whose
\* primary key is the new length.
create_subject(subs, self) == Append(subs, get_subject_attributes(self))

\* Variant that searches again before creating, as an atomic get-or-create
\* would; C9 tells it from the code.
get_subject_after_find_recheck(subs, self, existing) ==
    LET again == find_subject(subs, self) IN
    IF ~Truthy(again)
    THEN [ret |-> Some(Len(subs) + 1), subjects |-> create_subject(subs, self),
          after |-> self, branch |-> "created"]
    ELSE [ret |-> again, subjects |-> subs, after |-> self, branch |-> "found"]

\* Lines 62-64 of get_subject(): the decision taken on the search's result.
\* The result is the returned Subject, the Patient instance and the table
\* afterwards, and which return statement ran.
get_subject_after_find(subs, self, existing) ==
    IF ~Truthy(existing)
    THEN [ret |-> Some(Len(subs) + 1), subjects |-> create_subject(subs, self),
          after |-> self, branch |-> "created"]
    ELSE [ret |-> existing, subjects |-> subs, after |-> self, branch |-> "found"]

\* Variant that stores the resolved Subject in self.subject; C8 tells it
\* from the code.
get_subject_linking(subs, self) ==
    IF ~Truthy(self.subject)
    THEN LET r == get_subject_after_find(subs, self, find_subject(subs, self)) IN
         [r EXCEPT !.after = [self EXCEPT !.subject = r.ret]]
    ELSE [ret |-> self.subject, subjects |-> subs, after |-> self,
          branch |-> "linked"]

\* get_subject(), run without interruption.
get_subject(subs, self) ==
    IF ~Truthy(self.subject)
    THEN get_subject_after_find(subs, self, find_subject(subs, self))
    ELSE [ret |-> self.subject, subjects |-> subs, after |-> self,
          branch |-> "linked"]

(***************************************************************************)
(* Scan, DICOM series, SequenceType and NIfTI rows.                        *)
(***************************************************************************)
Scans == {"s1", "s2"}

\* Scan.id, and str(self.id) as used for the NIfTI file name.
ScanId(s) == IF s = "s1" THEN 1 ELSE 2

ScanIdStr(s) == IF s = "s1" THEN "1" ELSE "2"

SeriesIds == {1, 2}

\* The DICOM series a Scan may be related to (a OneToOneField: no two Scans
\* share a series).
SeriesOf(s) == ScanId(s)

\* SequenceType rows that may exist; a row is identified by its pair of codes.
SequenceTypePool ==
    { [scanning_sequence |-> "GR", sequence_variant |-> "SP"],
      [scanning_sequence |-> "SE", sequence_variant |-> "SK"] }

\* The header values of a DICOM series.  Series 1 and series 2 differ in
\* every copied column; pixel spacing and slice thickness may be absent.
MakeSeries(k, spacing, thickness, variant) ==
    IF k = 1
    THEN [number |-> Some(3), date |-> "2019-03-01", time |-> "10:15:00",
          description |-> Some("T1w"), echo_time |-> Some(2),
          inversion_time |-> Some(900), repetition_time |-> Some(2300),
          pixel_spacing |-> spacing, SliceThickness |-> thickness,
          scanning_sequence |-> "GR", sequence_variant |-> variant,
          path |-> <<"media", "MRI", "DICOM", "series1">>]
    ELSE [number |-> Some(7), date |-> "2019-04-02", time |-> "11:45:00",
          description |-> Some("DWI"), echo_time |-> Some(80),
          inversion_time |-> None, repetition_time |-> Some(5000),
          pixel_spacing |-> spacing, SliceThickness |-> thickness,
          scanning_sequence |-> "GR", sequence_variant |-> variant,
          path |-> <<"media", "MRI", "DICOM", "series2">>]

PixelSpacings == {None, Some(<<Some(1), Some(2)>>)}

SliceThicknesses == {None, Some(5)}

SequenceVariants == {"SP", "SK"}

\* A Scan instance that was created with no field filled in.
FreshScan(dicom) ==
    [number |-> None, time |-> None, description |-> None, echo_time |-> None,
     inversion_time |-> None, repetition_time |-> None,
     spatial_resolution |-> None, sequence_type |-> None,
     is_updated_from_dicom |-> FALSE, dicom |-> dicom, _nifti |-> None]

\* A Scan instance whose fields were entered by hand; sequence_type refers
\* to an existing SequenceType row, if to any.
FilledScan(dicom, sequence_type) ==
    [number |-> Some(1),
     time |-> Some([date |-> "2001-01-01", time |-> "00:00:00", tzinfo |-> "UTC"]),
     description |-> Some("manual"), echo_time |-> Some(11),
     inversion_time |-> Some(12), repetition_time |-> Some(13),
     spatial_resolution |-> Some(<<Some(4), Some(4), Some(4)>>),
     sequence_type |-> sequence_type,
     is_updated_from_dicom |-> FALSE, dicom |-> dicom, _nifti |-> None]

(***************************************************************************)
(* Scan methods.                                                           *)
(***************************************************************************)
\* datetime.combine(date, time, tzinfo=pytz.UTC)
combine(date, time, tzinfo) == [date |-> date, time |-> time, tzinfo |-> tzinfo]

\* Series.get_series_attribute(name): the header value, None when absent.
get_series_attribute(dicom, name) ==
    IF name = "SliceThickness" THEN dicom.SliceThickness ELSE None

\* get_spatial_resolution_from_dicom(): pixel_spacing + [SliceThickness].
\* list + list concatenates; None + list raises the TypeError that is caught.
\* A list element is itself optional: [1, 2, None] is <<Some(1), Some(2), None>>.
get_spatial_resolution_from_dicom(dicom) ==
    IF dicom.pixel_spacing = None
    THEN << >>
    ELSE dicom.pixel_spacing[1] \o <<get_series_attribute(dicom, "SliceThickness")>>

\* SequenceType.objects.get(scanning_sequence=..., sequence_variant=...):
\* the one match, or the exception get() raises.
\* get() reads the table and never writes it.
objects_get(types, scanning_sequence, sequence_variant) ==
    LET hits == { i \in 1..Len(types) :
                    /\ types[i].scanning_sequence = scanning_sequence
                    /\ types[i].sequence_variant = sequence_variant } IN
    IF hits = {}
    THEN [raised |-> "DoesNotExist", value |-> None, types |-> types]
    ELSE IF Cardinality(hits) = 1
         THEN [raised |-> "none", value |-> Some(CHOOSE i \in hits : TRUE),
               types |-> types]
         ELSE [raised |-> "MultipleObjectsReturned", value |-> None,
               types |-> types]

\* Variant without the except clause: the exception of get() propagates;
\* C10 tells it from the code.
infer_sequence_type_uncaught(dicom, types) ==
    objects_get(types, dicom.scanning_sequence, dicom.sequence_variant)

\* infer_sequence_type_from_dicom(): ObjectDoesNotExist is caught and None
\* returned; any other exception propagates.
infer_sequence_type_from_dicom(dicom, types) ==
    LET got == objects_get(types, dicom.scanning_sequence, dicom.sequence_variant) IN
    IF got.raised = "DoesNotExist"
    THEN [raised |-> "none", value |-> None, types |-> got.types]
    ELSE got

\* Variant with echo_time and repetition_time exchanged; C4 tells it from
\* the code.
copy_fields_exchanged(self, dicom) ==
    [self EXCEPT
       !.number = dicom.number,
       !.time = Some(combine(dicom.date, dicom.time, "UTC")),
       !.description = dicom.description,
       !.echo_time = dicom.repetition_time,
       !.inversion_time = dicom.inversion_time,
       !.repetition_time = dicom.echo_time,
       !.spatial_resolution = Some(get_spatial_resolution_from_dicom(dicom))]

\* Lines 119-127 of update_fields_from_dicom(): the assignments made before
\* the sequence type is inferred.
copy_fields_from_dicom(self, dicom) ==
    [self EXCEPT
       !.number = dicom.number,
       !.time = Some(combine(dicom.date, dicom.time, "UTC")),
       !.description = dicom.description,
       !.echo_time = dicom.echo_time,
       !.inversion_time = dicom.inversion_time,
       !.repetition_time = dicom.repetition_time,
       !.spatial_resolution = Some(get_spatial_resolution_from_dicom(dicom))]

\* Variant that sets the flag and returns True also with no series related;
\* C3 tells it from the code.
update_fields_from_dicom_unguarded(self, all_series, types) ==
    IF Truthy(self.dicom)
    THEN LET dicom == all_series[self.dicom[1]]
             inferred == infer_sequence_type_from_dicom(dicom, types)
             copied == copy_fields_from_dicom(self, dicom)
         IN IF inferred.raised = "none"
            THEN [after |-> [copied EXCEPT !.sequence_type = inferred.value,
                                          !.is_updated_from_dicom = TRUE],
                  types |-> inferred.types, outcome |-> "True"]
            ELSE [after |-> copied, types |-> inferred.types,
                  outcome |-> inferred.raised]
    ELSE [after |-> [self EXCEPT !.is_updated_from_dicom = TRUE],
          types |-> types, outcome |-> "True"]

\* update_fields_from_dicom(): the instance and the SequenceType table
\* afterwards, and the outcome ("True" for the returned value, or the name
\* of the exception raised).  An exception raised while the sequence type is
\* inferred leaves the fields assigned before it.
update_fields_from_dicom(self, all_series, types) ==
    IF Truthy(self.dicom)
    THEN LET dicom == all_series[self.dicom[1]]
             inferred == infer_sequence_type_from_dicom(dicom, types)
             copied == copy_fields_from_dicom(self, dicom)
         IN IF inferred.raised = "none"
            THEN [after |-> [copied EXCEPT !.sequence_type = inferred.value,
                                          !.is_updated_from_dicom = TRUE],
                  types |-> inferred.types, outcome |-> "True"]
            ELSE [after |-> copied, types |-> inferred.types,
                  outcome |-> inferred.raised]
    ELSE [after |-> self, types |-> types, outcome |-> "AttributeError"]

\* str.replace("DICOM", "NIfTI") on a path, component by component.
replace(path, old, new) ==
    [i \in 1..Len(path) |-> IF path[i] = old THEN new ELSE path[i]]

\* get_default_nifti_dir(); called only with a DICOM series related.
get_default_nifti_dir(dicom) == replace(dicom.path, "DICOM", "NIfTI")

\* get_default_nifti_destination(): os.path.join(directory, str(self.id))
get_default_nifti_destination(dicom, s) ==
    Append(get_default_nifti_dir(dicom), ScanIdStr(s))

\* dicom_to_nifti() with no destination given: runs the converter and
\* creates the NIfTI row, or raises AttributeError with no series related.
dicom_to_nifti(self, s, all_series, rows) ==
    IF Truthy(self.dicom)
    THEN LET dicom == all_series[self.dicom[1]]
             nifti_path == get_default_nifti_destination(dicom, s)
         IN [raised |-> "none", converted |-> 1,
             niftis |-> Append(rows, [path |-> nifti_path, parent |-> ScanId(s),
                                      is_raw |-> TRUE]),
             value |-> Some(Len(rows) + 1)]
    ELSE [raised |-> "AttributeError", converted |-> 0, niftis |-> rows,
          value |-> None]

\* Variant that converts on every access of a Scan with a series related,
\* whether or not _nifti is set; C5 tells it from the code.
nifti_unmemoized(self, s, all_series, rows) ==
    IF Truthy(self.dicom)
    THEN LET made == dicom_to_nifti(self, s, all_series, rows) IN
         [after |-> [self EXCEPT !._nifti = made.value],
          outcome |-> "returned", ret |-> made.value,
          niftis |-> made.niftis, converted |-> made.converted, saved |-> 1]
    ELSE [after |-> self, outcome |-> "returned", ret |-> self._nifti,
          niftis |-> rows, converted |-> 0, saved |-> 0]

\* Variant that calls save() on every path that reaches the end of the
\* property; C7 tells it from the code.
nifti_saving_always(self, s, all_series, rows) ==
    IF Truthy(self._nifti)
    THEN [after |-> self, outcome |-> "returned", ret |-> self._nifti,
          niftis |-> rows, converted |-> 0, saved |-> 0]
    ELSE IF ~Truthy(self._nifti) /\ Truthy(self.dicom)
         THEN LET made == dicom_to_nifti(self, s, all_series, rows) IN
              [after |-> [self EXCEPT !._nifti = made.value],
               outcome |-> "returned", ret |-> made.value,
               niftis |-> made.niftis, converted |-> made.converted,
               saved |-> 1]
         ELSE [after |-> self, outcome |-> "returned", ret |-> None,
               niftis |-> rows, converted |-> 0, saved |-> 1]

\* The nifti property: the instance afterwards, the outcome ("returned" or
\* the name of the exception raised), the returned NIfTI (or None), the
\* NIfTI table, and how often the converter and save() ran.
nifti(self, s, all_series, rows) ==
    IF Truthy(self._nifti)
    THEN [after |-> self, outcome |-> "returned", ret |-> self._nifti,
          niftis |-> rows, converted |-> 0, saved |-> 0]
    ELSE IF ~Truthy(self._nifti) /\ Truthy(self.dicom)
         THEN LET made == dicom_to_nifti(self, s, all_series, rows) IN
              IF made.raised = "none"
              THEN [after |-> [self EXCEPT !._nifti = made.value],
                    outcome |-> "returned", ret |-> made.value,
                    niftis |-> made.niftis, converted |-> made.converted,
                    saved |-> 1]
              ELSE [after |-> self, outcome |-> made.raised, ret |-> None,
                    niftis |-> made.niftis, converted |-> made.converted,
                    saved |-> 0]
         ELSE [after |-> self, outcome |-> "returned", ret |-> None,
               niftis |-> rows, converted |-> 0, saved |-> 0]

(***************************************************************************)
(* The REST layer: authentication and permission of a request, as set by   *)
(* DefaultsMixin (accounts/views.py) and REST_FRAMEWORK (settings.py).     *)
(***************************************************************************)
\* The viewsets that take DefaultsMixin's classes.
MixinViewSets == {"user", "group", "profile"}

\* A viewset that declares no permission_classes and no
\* authentication_classes, and so takes the project-wide defaults.
SettingsViewSets == {"settings_default"}

ViewSets == MixinViewSets \cup SettingsViewSets

\* The actions of a ModelViewSet and the HTTP method of each.
ViewSetActions ==
    {"list", "retrieve", "create", "update", "partial_update", "destroy"}

Method(action) ==
    IF action \in {"list", "retrieve"} THEN "GET"
    ELSE IF action = "create" THEN "POST"
    ELSE IF action = "update" THEN "PUT"
    ELSE IF action = "partial_update" THEN "PATCH"
    ELSE "DELETE"

\* What the Authorization header of a request carries.
Credentials ==
    {"none", "basic_valid", "basic_invalid", "token_valid", "token_invalid"}

\* settings.REST_FRAMEWORK["DEFAULT_PERMISSION_CLASSES"]
DEFAULT_PERMISSION_CLASSES == {"DjangoModelPermissionsOrAnonReadOnly"}

\* REST_FRAMEWORK sets no DEFAULT_AUTHENTICATION_CLASSES: the framework's
\* own default applies.
DEFAULT_AUTHENTICATION_CLASSES == <<"SessionAuthentication", "BasicAuthentication">>

\* Variant in which DefaultsMixin declares no permission_classes, so that
\* every viewset takes the project-wide default; C11 tells it from the code.
permission_classes_unset(viewset) == DEFAULT_PERMISSION_CLASSES

\* The permission classes in force on a viewset.
permission_classes(viewset) ==
    IF viewset \in MixinViewSets
    THEN {"IsAuthenticated"}
    ELSE DEFAULT_PERMISSION_CLASSES

\* The authentication classes in force on a viewset, in order.
authentication_classes(viewset) ==
    IF viewset \in MixinViewSets
    THEN <<"BasicAuthentication", "TokenAuthentication">>
    ELSE DEFAULT_AUTHENTICATION_CLASSES

\* One authenticator on one request: "user" when it authenticates the
\* request, "failed" when it raises AuthenticationFailed, "pass" when the
\* request carries nothing addressed to it.
authenticate(class, credential) ==
    IF class = "BasicAuthentication" /\ credential = "basic_valid" THEN "user"
    ELSE IF class = "BasicAuthentication" /\ credential = "basic_invalid" THEN "failed"
    ELSE IF class = "TokenAuthentication" /\ credential = "token_valid" THEN "user"
    ELSE IF class = "TokenAuthentication" /\ credential = "token_invalid" THEN "failed"
    ELSE "pass"

\* The authenticators are tried in order; the first that does not pass
\* decides, and request.user is the anonymous user when all pass.
RECURSIVE perform_authentication(_, _)
perform_authentication(classes, credential) ==
    IF classes = << >> THEN "anonymous"
    ELSE LET got == authenticate(Head(classes), credential) IN
         IF got = "pass"
         THEN perform_authentication(Tail(classes), credential)
         ELSE got

\* has_permission() of one permission class.  IsAuthenticated wants an
\* authenticated user.  DjangoModelPermissionsOrAnonReadOnly asks
\* user.has_perms() for the model permissions the method needs: none for
\* GET, which every user has, the anonymous user included; the anonymous
\* user has no other.
has_permission(class, user, method, has_model_perms) ==
    IF class = "IsAuthenticated"
    THEN user = "user"
    ELSE IF method = "GET"
         THEN TRUE
         ELSE user = "user" /\ has_model_perms

\* The response to a request: denied when authentication fails or some
\* permission class refuses, allowed otherwise.
dispatch(viewset, action, credential, has_model_perms) ==
    LET user == perform_authentication(authentication_classes(viewset), credential) IN
    IF user = "failed"
    THEN [user |-> user, response |-> "denied"]
    ELSE IF \A class \in permission_classes(viewset) :
               has_permission(class, user, Method(action), has_model_perms)
         THEN [user |-> user, response |-> "allowed"]
         ELSE [user |-> user, response |-> "denied"]

NoRequest ==
    [viewset |-> "none", action |-> "none", credential |-> "none",
     has_model_perms |-> FALSE, user |-> "none", response |-> "none"]

\* No REST work: no request made.
IdleRest == rcall = NoRequest

(***************************************************************************)
(* Initial states.                                                         *)
(***************************************************************************)
Threads == {"t1", "t2"}

NoCall == [op |-> "none", patient |-> "none", ret |-> None, branch |-> "none"]

NoScanCall ==
    [op |-> "none", scan |-> "none", outcome |-> "none", ret |-> None,
     converted |-> 0]

\* The subject relation is a nullable OneToOneField: any Subject may be
\* linked, and no two Patients link the same Subject.
InitPatients ==
    /\ subjects \in SeqUpTo(SubjectPool, MaxInitSubjects)
    /\ \E link \in [Patients -> {None} \cup { Some(i) : i \in 1..Len(subjects) }] :
          /\ \A p, q \in Patients :
                (p # q /\ link[p] # None) => link[p] # link[q]
          /\ patient = [p \in Patients |-> MakePatient(p, link[p])]
    /\ pcall = NoCall
    /\ returned = [p \in Patients |-> None]
    /\ pc = [t \in Threads |-> "idle"]
    /\ tpatient = [t \in Threads |-> "p1"]
    /\ existing_subject = [t \in Threads |-> None]

\* No Patient work: the Patient-Subject part at rest.
IdlePatients ==
    /\ subjects = << >>
    /\ patient = [p \in Patients |-> MakePatient(p, None)]
    /\ pcall = NoCall
    /\ returned = [p \in Patients |-> None]
    /\ pc = [t \in Threads |-> "idle"]
    /\ tpatient = [t \in Threads |-> "p1"]
    /\ existing_subject = [t \in Threads |-> None]

\* Every Scan is fresh or filled in by hand, with or without its DICOM
\* series related, and has not been converted; the saved row equals the
\* instance.  SequenceType rows are pairwise different.
InitScans ==
    /\ series \in { [k \in SeriesIds |-> MakeSeries(k, sp[k], th[k], va[k])] :
                      sp \in [SeriesIds -> PixelSpacings],
                      th \in [SeriesIds -> SliceThicknesses],
                      va \in [SeriesIds -> SequenceVariants] }
    /\ sequence_types \in
          { q \in SeqUpTo(SequenceTypePool, Cardinality(SequenceTypePool)) :
              \A i, j \in 1..Len(q) : i # j => q[i] # q[j] }
    /\ scan \in { [s \in Scans |->
                      IF filled[s]
                      THEN FilledScan(dicom[s], IF Len(sequence_types) > 0
                                                THEN Some(1) ELSE None)
                      ELSE FreshScan(dicom[s])] :
                    filled \in [Scans -> BOOLEAN],
                    dicom \in { d \in [Scans -> {None} \cup {Some(k) : k \in SeriesIds}] :
                                  \A s \in Scans : d[s] \in {None, Some(SeriesOf(s))} } }
    /\ scan_db = scan
    /\ niftis = << >>
    /\ conversions = [s \in Scans |-> 0]
    /\ saves = [s \in Scans |-> 0]
    /\ scall = NoScanCall

\* No Scan work: the Scan part at rest.
IdleScans ==
    /\ series = [k \in SeriesIds |-> MakeSeries(k, None, None, "SP")]
    /\ sequence_types = << >>
    /\ scan = [s \in Scans |-> FreshScan(None)]
    /\ scan_db = scan
    /\ niftis = << >>
    /\ conversions = [s \in Scans |-> 0]
    /\ saves = [s \in Scans |-> 0]
    /\ scall = NoScanCall

(***************************************************************************)
(* Sequential calls: every get_subject() runs to completion.               *)
(***************************************************************************)
GetSubject(p) ==
    LET r == get_subject(subjects, patient[p]) IN
    /\ Len(r.subjects) <= MaxSubjects
    /\ SubjectInsertAllowed(subjects, get_subject_attributes(patient[p]))
    /\ subjects' = r.subjects
    /\ patient' = [patient EXCEPT ![p] = r.after]
    /\ pcall' = [op |-> "get_subject", patient |-> p, ret |-> r.ret,
                 branch |-> r.branch]
    /\ returned' = [returned EXCEPT ![p] = r.ret]
    /\ UNCHANGED <<pc, tpatient, existing_subject>>
    /\ UNCHANGED svars
    /\ UNCHANGED rvars

NextPatient == \E p \in Patients : GetSubject(p)

InitPatient == InitPatients /\ IdleScans /\ IdleRest

SpecPatient == InitPatient /\ [][NextPatient]_vars

\* No two Subject rows of subs share an id_number.
UniqueIdNumbers(subs) ==
    \A i, j \in 1..Len(subs) : subs[i].id_number = subs[j].id_number => i = j

\* Sequential calls that start with at most one Subject per id_number.
InitSequential == InitPatient /\ UniqueIdNumbers(subjects)

SpecSequential == InitSequential /\ [][NextPatient]_vars

(***************************************************************************)
(* Concurrent requests: get_subject() as the steps between which another   *)
(* request may run.  Each request works on its own instance of the Patient *)
(* row.                                                                    *)
(***************************************************************************)
\* Line 60: `if not self.subject`; a linked Subject is returned at once.
Begin(t, p) ==
    /\ pc[t] = "idle"
    /\ tpatient' = [tpatient EXCEPT ![t] = p]
    /\ existing_subject' = [existing_subject EXCEPT ![t] = None]
    /\ IF ~Truthy(patient[p].subject)
       THEN /\ pc' = [pc EXCEPT ![t] = "find_subject"]
            /\ UNCHANGED <<pcall, returned>>
       ELSE /\ pc' = pc
            /\ pcall' = [op |-> "get_subject", patient |-> p,
                         ret |-> patient[p].subject, branch |-> "linked"]
            /\ returned' = [returned EXCEPT ![p] = patient[p].subject]
    /\ UNCHANGED <<subjects, patient>>
    /\ UNCHANGED svars
    /\ UNCHANGED rvars

\* Line 61: existing_subject = self.find_subject()
Find(t) ==
    /\ pc[t] = "find_subject"
    /\ existing_subject' =
          [existing_subject EXCEPT ![t] = find_subject(subjects, patient[tpatient[t]])]
    /\ pc' = [pc EXCEPT ![t] = "found"]
    /\ UNCHANGED <<subjects, patient, pcall, returned, tpatient>>
    /\ UNCHANGED svars
    /\ UNCHANGED rvars

\* Lines 62-64: create and return, or return the Subject found.
Decide(t) ==
    LET r == get_subject_after_find(subjects, patient[tpatient[t]],
                                    existing_subject[t]) IN
    /\ pc[t] = "found"
    /\ Len(r.subjects) <= MaxSubjects
    /\ SubjectInsertAllowed(subjects, get_subject_attributes(patient[tpatient[t]]))
    /\ subjects' = r.subjects
    /\ patient' = [patient EXCEPT ![tpatient[t]] = r.after]
    /\ pcall' = [op |-> "get_subject", patient |-> tpatient[t], ret |-> r.ret,
                 branch |-> r.branch]
    /\ returned' = [returned EXCEPT ![tpatient[t]] = r.ret]
    /\ pc' = [pc EXCEPT ![t] = "idle"]
    /\ UNCHANGED <<tpatient, existing_subject>>
    /\ UNCHANGED svars
    /\ UNCHANGED rvars

NextRace ==
    \E t \in Threads :
        \/ \E p \in Patients : Begin(t, p)
        \/ Find(t)
        \/ Decide(t)

InitRace == InitPatients /\ IdleScans /\ IdleRest

SpecRace == InitRace /\ [][NextRace]_vars

(***************************************************************************)
(* Scan operations.                                                        *)
(***************************************************************************)
\* Most NIfTI rows the table may hold (conversion is disabled beyond it).
MaxNiftis == 3

\* scan.update_fields_from_dicom(): changes the instance, saves nothing.
UpdateFieldsFromDicom(s) ==
    LET r == update_fields_from_dicom(scan[s], series, sequence_types) IN
    /\ scan' = [scan EXCEPT ![s] = r.after]
    /\ sequence_types' = r.types
    /\ scall' = [op |-> "update_fields_from_dicom", scan |-> s,
                 outcome |-> r.outcome, ret |-> None, converted |-> 0]
    /\ UNCHANGED <<scan_db, series, niftis, conversions, saves>>
    /\ UNCHANGED pvars
    /\ UNCHANGED rvars

\* scan.nifti: the property access, with the conversion and the save it may
\* trigger.
Nifti(s) ==
    LET r == nifti(scan[s], s, series, niftis) IN
    /\ Len(r.niftis) <= MaxNiftis
    /\ scan' = [scan EXCEPT ![s] = r.after]
    /\ niftis' = r.niftis
    /\ conversions' = [conversions EXCEPT ![s] = @ + r.converted]
    /\ saves' = [saves EXCEPT ![s] = @ + r.saved]
    /\ scan_db' = IF r.saved > 0 THEN [scan_db EXCEPT ![s] = r.after] ELSE scan_db
    /\ scall' = [op |-> "nifti", scan |-> s, outcome |-> r.outcome, ret |-> r.ret,
                 converted |-> r.converted]
    /\ UNCHANGED <<series, sequence_types>>
    /\ UNCHANGED pvars
    /\ UNCHANGED rvars

NextScan ==
    \E s \in Scans :
        \/ UpdateFieldsFromDicom(s)
        \/ Nifti(s)

InitScan == IdlePatients /\ InitScans /\ IdleRest

SpecScan == InitScan /\ [][NextScan]_vars

(***************************************************************************)
(* REST requests.                                                          *)
(***************************************************************************)
\* One request on a viewset, by a client with the given credentials whose
\* user, if any, has or lacks the model permissions.
Request(viewset, action, credential, has_model_perms) ==
    LET r == dispatch(viewset, action, credential, has_model_perms) IN
    /\ rcall' = [viewset |-> viewset, action |-> action, credential |-> credential,
                 has_model_perms |-> has_model_perms, user |-> r.user,
                 response |-> r.response]
    /\ UNCHANGED pvars
    /\ UNCHANGED svars

NextRest ==
    \E viewset \in ViewSets, action \in ViewSetActions,
       credential \in Credentials, has_model_perms \in BOOLEAN :
        Request(viewset, action, credential, has_model_perms)

InitRest == IdlePatients /\ IdleScans /\ IdleRest

SpecRest == InitRest /\ [][NextRest]_vars

(***************************************************************************)
(* Properties of Patient.get_subject().                                    *)
(***************************************************************************)
\* The step just taken completed get_subject() on Patient p.
CalledGetSubject(p) == pcall'.op = "get_subject" /\ pcall'.patient = p

\* Some Subject row of subs has this id_number.
HasIdNumber(subs, id_number) == \E i \in 1..Len(subs) : subs[i].id_number = id_number

\* C1: a get_subject() call on a Patient whose subject link is null, made
\* when no Subject has the Patient's patient_uid as id_number, adds exactly
\* one Subject row, leaves the other rows as they were, returns the new
\* Subject, and the new Subject's first_name, last_name, date_of_birth, sex
\* and id_number are the Patient's given_name, family_name, date_of_birth,
\* sex and patient_uid.
C1_CreatesOneMatchingSubject ==
    [][\A p \in Patients :
         ( /\ CalledGetSubject(p)
           /\ patient[p].subject = None
           /\ ~HasIdNumber(subjects, patient[p].patient_uid) )
         => /\ Len(subjects') = Len(subjects) + 1
            /\ SubSeq(subjects', 1, Len(subjects)) = subjects
            /\ pcall'.ret = Some(Len(subjects'))
            /\ subjects'[Len(subjects')].first_name = patient[p].given_name
            /\ subjects'[Len(subjects')].last_name = patient[p].family_name
            /\ subjects'[Len(subjects')].date_of_birth = patient[p].date_of_birth
            /\ subjects'[Len(subjects')].sex = patient[p].sex
            /\ subjects'[Len(subjects')].id_number = patient[p].patient_uid
      ]_vars

\* A call on an unlinked Patient has just created the Subject it returned,
\* the only Subject carrying the Patient's identifier.
C1_Witness ==
    /\ pcall.op = "get_subject"
    /\ pcall.branch = "created"
    /\ patient[pcall.patient].subject = None
    /\ pcall.ret = Some(Len(subjects))
    /\ filter_id_number(subjects, patient[pcall.patient].patient_uid) = {Len(subjects)}

\* C2 as stated: a get_subject() call on a Patient whose patient_uid is the
\* id_number of an existing Subject returns a Subject with that id_number
\* and leaves the Subject table as it was.
C2_ReturnsMatchingSubject ==
    [][\A p \in Patients :
         ( /\ CalledGetSubject(p)
           /\ HasIdNumber(subjects, patient[p].patient_uid) )
         => /\ subjects' = subjects
            /\ pcall'.ret # None
            /\ pcall'.ret[1] \in filter_id_number(subjects, patient[p].patient_uid)
      ]_vars

\* C2, amended: such a call creates no Subject (the table is the same before
\* and after) and returns an existing Subject: the linked Subject when the
\* Patient's subject link is set, and otherwise an existing Subject whose
\* id_number is the Patient's patient_uid.
C2_NoDuplicateCreated ==
    [][\A p \in Patients :
         ( /\ CalledGetSubject(p)
           /\ HasIdNumber(subjects, patient[p].patient_uid) )
         => /\ subjects' = subjects
            /\ pcall'.ret # None
            /\ pcall'.ret[1] \in 1..Len(subjects)
            /\ patient[p].subject # None => pcall'.ret = patient[p].subject
            /\ patient[p].subject = None =>
                  pcall'.ret[1] \in filter_id_number(subjects, patient[p].patient_uid)
      ]_vars

\* A call on an unlinked Patient has just returned an existing Subject that
\* carries the Patient's identifier.
C2_Witness ==
    /\ pcall.op = "get_subject"
    /\ pcall.branch = "found"
    /\ patient[pcall.patient].subject = None
    /\ pcall.ret # None
    /\ pcall.ret[1] \in filter_id_number(subjects, patient[pcall.patient].patient_uid)

\* C8: get_subject() never writes the subject link.  A call leaves every
\* Patient as it was; on a Patient with a null link it returns a Subject and
\* the link is still null afterwards; on a Patient with a linked Subject it
\* returns that Subject and leaves the Subject table as it was.
C8_LinkNeverWritten ==
    [][\A p \in Patients :
         CalledGetSubject(p)
         => /\ patient' = patient
            /\ patient[p].subject = None =>
                  /\ pcall'.ret # None
                  /\ pcall'.ret[1] \in 1..Len(subjects')
                  /\ patient'[p].subject = None
            /\ patient[p].subject # None =>
                  /\ pcall'.ret = patient[p].subject
                  /\ subjects' = subjects
      ]_vars

\* A call has just returned a Subject for a Patient whose link is still null.
C8_Witness ==
    /\ pcall.op = "get_subject"
    /\ pcall.branch \in {"found", "created"}
    /\ pcall.ret # None
    /\ patient[pcall.patient].subject = None

\* C9: get_subject() does not search again before it creates.  Whenever a
\* request whose search found nothing takes its deciding step, a Subject
\* with the Patient's patient_uid is added, also when another request has
\* created one for that patient_uid since the search.
C9_CreateAfterStaleSearch ==
    [][\A t \in Threads :
         ( /\ pc[t] = "found"
           /\ pc'[t] = "idle"
           /\ existing_subject[t] = None )
         => /\ Len(subjects') = Len(subjects) + 1
            /\ subjects'[Len(subjects')].id_number = patient[tpatient[t]].patient_uid
            /\ pcall'.ret = Some(Len(subjects'))
      ]_vars

\* Two requests for one Patient, unlinked and with no Subject to find, have
\* both created a Subject: two rows share the Patient's identifier.
C9_Witness ==
    \E p \in Patients :
        /\ patient[p].subject = None
        /\ \E i, j \in 1..Len(subjects) :
              /\ i < j
              /\ subjects[i] = get_subject_attributes(patient[p])
              /\ subjects[j] = get_subject_attributes(patient[p])
        /\ \A t \in Threads : pc[t] = "idle"

\* C12: under sequential get_subject() calls that start with at most one
\* Subject per id_number, no two Subjects ever share an id_number; and a
\* call on a Patient on which a call completed before returns the Subject
\* that earlier call returned, while the Patient's subject link stays as it
\* was (null when it was null).
C12_SequentialCallsAgree ==
    /\ [](UniqueIdNumbers(subjects))
    /\ [][\A p \in Patients :
            (CalledGetSubject(p) /\ returned[p] # None)
            => /\ pcall'.ret = returned[p]
               /\ returned'[p] = returned[p]
               /\ subjects' = subjects
               /\ patient'[p].subject = patient[p].subject
         ]_vars

\* A second call on an unlinked Patient has just found the Subject that an
\* earlier call on it created; after a call on the other Patient too, the
\* link is still null and both Patients keep their own Subject.
C12_Witness ==
    /\ pcall.op = "get_subject"
    /\ pcall.branch = "found"
    /\ patient[pcall.patient].subject = None
    /\ pcall.ret = returned[pcall.patient]
    /\ subjects[pcall.ret[1]] = get_subject_attributes(patient[pcall.patient])
    /\ \A p \in Patients : returned[p] # None
    /\ returned["p1"] # returned["p2"]

(***************************************************************************)
(* Properties of the Scan methods.                                         *)
(***************************************************************************)
\* The step just taken ran update_fields_from_dicom() on Scan s.
CalledUpdate(s) == scall'.op = "update_fields_from_dicom" /\ scall'.scan = s

\* The step just taken read the nifti property of Scan s.
CalledNifti(s) == scall'.op = "nifti" /\ scall'.scan = s

\* The primary keys of the SequenceType rows whose two codes equal those of
\* the DICOM series.
MatchingTypes(dicom) ==
    { i \in 1..Len(sequence_types) :
        /\ sequence_types[i].scanning_sequence = dicom.scanning_sequence
        /\ sequence_types[i].sequence_variant = dicom.sequence_variant }

\* The NIfTI rows whose parent is Scan s.
NiftisOf(s) == { i \in 1..Len(niftis) : niftis[i].parent = ScanId(s) }

\* C3: update_fields_from_dicom() on a Scan whose dicom link is null ends
\* with AttributeError and leaves the Scan instance, all its fields, as it
\* was before the call.
C3_NoDicomNoMutation ==
    [][\A s \in Scans :
         (CalledUpdate(s) /\ scan[s].dicom = None)
         => /\ scall'.outcome = "AttributeError"
            /\ scan'[s] = scan[s]
      ]_vars

\* A filled-in Scan with no series related was asked to update, the call
\* raised, and the Scan still holds the values entered by hand.
C3_Witness ==
    /\ scall.op = "update_fields_from_dicom"
    /\ scall.outcome = "AttributeError"
    /\ scan[scall.scan].dicom = None
    /\ scan[scall.scan].number = Some(1)
    /\ ~scan[scall.scan].is_updated_from_dicom

\* C4: right after update_fields_from_dicom() on a Scan whose dicom link is
\* set, the call has returned True, is_updated_from_dicom is true, number,
\* description, echo_time, inversion_time and repetition_time equal the
\* values of the related series, and time is the series' date combined with
\* its time in UTC.
C4_FieldsMatchSeries ==
    \A s \in Scans :
        ( /\ scall.op = "update_fields_from_dicom"
          /\ scall.scan = s
          /\ scan[s].dicom # None )
        => /\ scall.outcome = "True"
           /\ scan[s].is_updated_from_dicom
           /\ scan[s].number = series[scan[s].dicom[1]].number
           /\ scan[s].description = series[scan[s].dicom[1]].description
           /\ scan[s].echo_time = series[scan[s].dicom[1]].echo_time
           /\ scan[s].inversion_time = series[scan[s].dicom[1]].inversion_time
           /\ scan[s].repetition_time = series[scan[s].dicom[1]].repetition_time
           /\ scan[s].time = Some([date |-> series[scan[s].dicom[1]].date,
                                   time |-> series[scan[s].dicom[1]].time,
                                   tzinfo |-> "UTC"])

\* Scan s1, related to series 1, has just been updated from it.
C4_Witness ==
    /\ scall.op = "update_fields_from_dicom"
    /\ scall.scan = "s1"
    /\ scall.outcome = "True"
    /\ scan["s1"].dicom = Some(1)
    /\ scan["s1"].is_updated_from_dicom
    /\ scan["s1"].echo_time = Some(2)
    /\ scan["s1"].repetition_time = Some(2300)

\* C5: whatever accesses of the nifti property are made, a Scan is converted
\* at most once and has at most one NIfTI row.  On a Scan with a series
\* related, an access made while _nifti is null runs the converter once,
\* creates one NIfTI row whose parent is the Scan, stores it in _nifti,
\* saves the Scan and returns it; an access made while _nifti is set returns
\* that same NIfTI and converts, creates and changes nothing.
C5_NiftiConvertedOnce ==
    /\ [](\A s \in Scans : conversions[s] <= 1 /\ Cardinality(NiftisOf(s)) <= 1)
    /\ [][\A s \in Scans :
            (CalledNifti(s) /\ scan[s].dicom # None)
            => /\ scall'.outcome = "returned"
               /\ IF scan[s]._nifti = None
                  THEN /\ scall'.converted = 1
                       /\ conversions'[s] = conversions[s] + 1
                       /\ Len(niftis') = Len(niftis) + 1
                       /\ SubSeq(niftis', 1, Len(niftis)) = niftis
                       /\ niftis'[Len(niftis')].parent = ScanId(s)
                       /\ scan'[s]._nifti = Some(Len(niftis'))
                       /\ scall'.ret = Some(Len(niftis'))
                       /\ saves'[s] = saves[s] + 1
                       /\ scan_db'[s] = scan'[s]
                  ELSE /\ scall'.converted = 0
                       /\ scall'.ret = scan[s]._nifti
                       /\ conversions' = conversions
                       /\ niftis' = niftis
                       /\ scan' = scan
                       /\ saves' = saves
         ]_vars

\* The nifti property of a converted Scan has just been read again: it
\* returned the NIfTI stored in _nifti, and the one conversion stands.
C5_Witness ==
    /\ scall.op = "nifti"
    /\ scall.converted = 0
    /\ scan[scall.scan].dicom # None
    /\ scall.ret # None
    /\ scall.ret = scan[scall.scan]._nifti
    /\ conversions[scall.scan] = 1
    /\ saves[scall.scan] = 1
    /\ NiftisOf(scall.scan) = {scall.ret[1]}
    /\ scan_db[scall.scan]._nifti = scall.ret

\* C6 as stated: right after a successful update_fields_from_dicom() from a
\* series whose SliceThickness is null, the spatial resolution derived by
\* get_spatial_resolution_from_dicom() is the empty list, whether or not the
\* series has a pixel spacing.
C6_EmptyWithoutSliceThickness ==
    \A s \in Scans :
        ( /\ scall.op = "update_fields_from_dicom"
          /\ scall.scan = s
          /\ scall.outcome = "True"
          /\ series[scan[s].dicom[1]].SliceThickness = None )
        => scan[s].spatial_resolution = Some(<< >>)

\* C7: reading the nifti property of a Scan whose _nifti and dicom links are
\* both null returns None without raising, runs no conversion, creates no
\* NIfTI row, calls no save() and leaves the Scan instance and its saved row
\* as they were.
C7_NiftiNoOpWithoutLinks ==
    [][\A s \in Scans :
         (CalledNifti(s) /\ scan[s]._nifti = None /\ scan[s].dicom = None)
         => /\ scall'.outcome = "returned"
            /\ scall'.ret = None
            /\ scall'.converted = 0
            /\ conversions' = conversions
            /\ niftis' = niftis
            /\ saves' = saves
            /\ scan' = scan
            /\ scan_db' = scan_db
      ]_vars

\* The nifti property of a Scan with neither link has just been read.
C7_Witness ==
    /\ scall.op = "nifti"
    /\ scall.outcome = "returned"
    /\ scall.ret = None
    /\ scan[scall.scan]._nifti = None
    /\ scan[scall.scan].dicom = None
    /\ saves[scall.scan] = 0

\* C10: right after update_fields_from_dicom() on a Scan with a series
\* related, the call has returned True and is_updated_from_dicom is true;
\* sequence_type is a SequenceType whose scanning_sequence and
\* sequence_variant both equal the series' when such a row exists, and null
\* when none does.  No step creates or changes a SequenceType row.
C10_SequenceTypeOrNull ==
    /\ [](\A s \in Scans :
            ( /\ scall.op = "update_fields_from_dicom"
              /\ scall.scan = s
              /\ scan[s].dicom # None )
            => /\ scall.outcome = "True"
               /\ scan[s].is_updated_from_dicom
               /\ MatchingTypes(series[scan[s].dicom[1]]) # {} =>
                     /\ scan[s].sequence_type # None
                     /\ scan[s].sequence_type[1]
                           \in MatchingTypes(series[scan[s].dicom[1]])
               /\ MatchingTypes(series[scan[s].dicom[1]]) = {} =>
                     scan[s].sequence_type = None)
    /\ [][sequence_types' = sequence_types]_vars

\* A Scan has just been updated from a series that no SequenceType row
\* matches, although rows exist: sequence_type is null and the flag is set.
C10_Witness ==
    /\ scall.op = "update_fields_from_dicom"
    /\ scall.outcome = "True"
    /\ scan[scall.scan].dicom # None
    /\ Len(sequence_types) > 0
    /\ MatchingTypes(series[scan[scall.scan].dicom[1]]) = {}
    /\ scan[scall.scan].sequence_type = None
    /\ scan[scall.scan].is_updated_from_dicom

(***************************************************************************)
(* Properties of the REST layer.                                           *)
(***************************************************************************)
\* The last request carried no valid basic or token credentials.
NoValidCredentials ==
    rcall.credential \in {"none", "basic_invalid", "token_invalid"}

====
